---- MODULE Spec2Model ----
(***************************************************************************)
(* CameraControl (src/src/scene/lighting/SpotLight.js, lines 488-1034):    *)
(* the configuration surface, the pending-update accumulator, the handler  *)
(* list and the reset / destroy walks over it.                             *)
(*                                                                         *)
(* The device handlers, PivotController, CameraUpdater and the Component   *)
(* base class are imported by the file but are not part of it; what they   *)
(* do is modelled from spec.md (sections 3, 4.2, 4.4, 4.5) and marked so.  *)
(*                                                                         *)
(* JavaScript values.  A boolean or string argument is a string: the       *)
(* strings "undefined", "null", "true" and "false" stand for the literals  *)
(* of that name, every other string for itself.  A numeric argument is a   *)
(* record [undef, n]; fractional numbers are counted in hundredths         *)
(* (0.5 is 50, 1.0 is 100, 10.0 is 1000).                                  *)
(***************************************************************************)
EXTENDS Integers, Sequences, FiniteSets, TLC

VARIABLES
    configs,    \* this._configs
    states,     \* this._states and the handlers' own transient flags
    updates,    \* this._updates, the pending-update accumulator
    pivot,      \* the PivotController's state
    destroyed,  \* destroy() has run
    calls,      \* the calls the last operation made on its collaborators, in order
    op,         \* the operation last performed
    toggle,     \* progress of an active true -> false -> true toggle (0, 1, 2)
    nOps,       \* operations performed since construction
    light       \* a SpotLight of the scene: its fields and what it has caused

vars == <<configs, states, updates, pivot, destroyed, calls, op, toggle, nOps, light>>

----------------------------------------------------------------------------
\* Bounds of the model

MaxDelta == 1      \* largest value a pending delta accumulates to
MaxTouches == 1    \* most simultaneous touches
MaxOps == 3        \* operations per run after construction
MaxLightOps == 4   \* operations on the SpotLight per run after construction

----------------------------------------------------------------------------
\* JavaScript values and coercions

JSUndefined == [undef |-> TRUE, n |-> 0]

JSNum(n) == [undef |-> FALSE, n |-> n]

Falsy == {"undefined", "null", "false", ""}

\* !!value
ToBoolean(v) == v \notin Falsy

\* value !== false
NotFalse(v) == v # "false"

\* the truthiness of a number (value || default)
NumTruthy(v) == ~v.undef /\ v.n # 0

BoolArgs == {"undefined", "true", "false"}

LayoutArgs == {"undefined", "", "qwerty", "azerty", "dvorak"}

InertiaArgs == {JSUndefined, JSNum(0), JSNum(100), JSNum(120)}

RateArgs == {JSUndefined, JSNum(0), JSNum(2000)}

PivotPositions == {"origin", "given"}

----------------------------------------------------------------------------
\* State after the field initialisers of the constructor.  The rates and
\* inertia factors are in hundredths; the tap intervals (milliseconds) and the
\* tap distance threshold (pixels) are whole numbers as written.

configs0 ==
    [active |-> TRUE,
     tapInterval |-> 150, doubleTapInterval |-> 325, tapDistanceThreshold |-> 4,
     mousePanRate |-> 10, keyboardPanRate |-> 2, keyboardOrbitRate |-> 2,
     touchRotateRate |-> 30, touchPanRate |-> 20, touchZoomRate |-> 20,
     dollyRate |-> 1000,
     planView |-> FALSE, firstPerson |-> FALSE, constrainVertical |-> FALSE,
     doublePickFlyTo |-> TRUE, panRightClick |-> TRUE,
     pivoting |-> FALSE, dollyToPointer |-> FALSE, dollyToPivot |-> FALSE,
     rotationInertia |-> 0, dollyInertia |-> 0,
     pointerEnabled |-> TRUE,
     keyboardLayout |-> "qwerty"]

\* mouseover, activeTouches, lastTapTime are fields of this._states; mouseDown
\* is the mouse pan/rotate/dolly handler's own drag flag.
states0 ==
    [mouseover |-> FALSE, mouseDown |-> FALSE, activeTouches |-> <<>>,
     lastTapTime |-> -1]

\* dolyDelta is the property _reset creates by its misspelt assignment.
updates0 ==
    [rotateDeltaX |-> 0, rotateDeltaY |-> 0,
     panDeltaX |-> 0, panDeltaY |-> 0, panDeltaZ |-> 0,
     dollyDelta |-> 0,
     dolyDelta |-> JSUndefined]

pivot0 ==
    [state |-> "Inactive", indicator |-> FALSE, element |-> FALSE, pos |-> "origin"]

_handlers ==
    <<"MouseMiscHandler", "TouchPanRotateAndDollyHandler", "MousePanRotateDollyHandler",
      "KeyboardAxisViewHandler", "MousePickHandler", "TouchPickHandler",
      "KeyboardPanRotateDollyHandler">>

\* The object a method runs on: the fields and the calls made so far.
World0 ==
    [configs |-> configs0, states |-> states0, updates |-> updates0,
     pivot |-> pivot0, destroyed |-> FALSE, calls |-> <<>>]

----------------------------------------------------------------------------
\* Collaborators (not in the file; modelled from spec.md)

\* One entry of the call log: the callee (a collaborator's method, or _reset /
\* _destroyHandlers as they are entered), the handler it is (or ""), and the
\* option values and accumulator the callee can observe when it is called.
Call(w, name, h) ==
    [call |-> name, h |-> h,
     active |-> w.configs.active, pointerEnabled |-> w.configs.pointerEnabled,
     upd |-> w.updates]

Log(w, name, h) == [w EXCEPT !.calls = Append(@, Call(w, name, h))]

\* Every handler offers reset and destroy (spec.md 4.2, 9).
hasReset(h) == TRUE

hasDestroy(h) == TRUE

\* handler.reset(): clears that handler's transient interaction state.
handlerReset(w, h) ==
    LET s == w.states
        s1 == CASE h = "MouseMiscHandler" -> [s EXCEPT !.mouseover = FALSE]
                [] h = "MousePanRotateDollyHandler" -> [s EXCEPT !.mouseDown = FALSE]
                [] h = "TouchPanRotateAndDollyHandler" -> [s EXCEPT !.activeTouches = <<>>]
                [] h \in {"MousePickHandler", "TouchPickHandler"} ->
                       [s EXCEPT !.lastTapTime = -1]
                [] OTHER -> s
    IN  [Log(w, "handler.reset", h) EXCEPT !.states = s1]

\* handler.destroy(): unsubscribes the handler from its device.
handlerDestroy(w, h) == Log(w, "handler.destroy", h)

\* PivotController.hidePivot(): hides the pivot indicator.
hidePivot(w) == [Log(w, "hidePivot", "") EXCEPT !.pivot.indicator = FALSE]

\* PivotController.endPivot(): Shown/Dragging -> Inactive.
endPivot(w) == [Log(w, "endPivot", "") EXCEPT !.pivot.state = "Inactive"]

\* PivotController.setPivotPos(worldPos)
setPivotPos(w, p) == [Log(w, "setPivotPos", "") EXCEPT !.pivot.pos = p]

\* PivotController.setPivotElement(element)
setPivotElement(w, e) == [Log(w, "setPivotElement", "") EXCEPT !.pivot.element = e]

\* Component.error(message): logs the message; it does not throw.
error(w) == Log(w, "error", "")

----------------------------------------------------------------------------
\* CameraControl methods

RECURSIVE resetLoop(_, _)
resetLoop(w, i) ==
    IF i > Len(_handlers) THEN w
    ELSE resetLoop(IF hasReset(_handlers[i]) THEN handlerReset(w, _handlers[i]) ELSE w,
                   i + 1)

\* _reset walking the handler list from its end
RECURSIVE resetLoopDown(_, _)
resetLoopDown(w, i) ==
    IF i < 1 THEN w
    ELSE resetLoopDown(IF hasReset(_handlers[i]) THEN handlerReset(w, _handlers[i]) ELSE w,
                       i - 1)

_reset_reversed(w) ==
    LET w1 == resetLoopDown(Log(w, "_reset", ""), Len(_handlers))
    IN  [w1 EXCEPT !.updates.panDeltaX = 0,
                   !.updates.panDeltaY = 0,
                   !.updates.rotateDeltaX = 0,
                   !.updates.rotateDeltaY = 0,
                   !.updates.dolyDelta = JSNum(0)]

\* _reset switching the control off as well
_reset_deactivates(w) ==
    LET w1 == resetLoop(Log(w, "_reset", ""), 1)
    IN  [w1 EXCEPT !.updates.panDeltaX = 0,
                   !.updates.panDeltaY = 0,
                   !.updates.rotateDeltaX = 0,
                   !.updates.rotateDeltaY = 0,
                   !.updates.dolyDelta = JSNum(0),
                   !.configs.active = FALSE]

_reset(w) ==
    LET w1 == resetLoop(Log(w, "_reset", ""), 1)
    IN  [w1 EXCEPT !.updates.panDeltaX = 0,
                   !.updates.panDeltaY = 0,
                   !.updates.rotateDeltaX = 0,
                   !.updates.rotateDeltaY = 0,
                   !.updates.dolyDelta = JSNum(0)]

\* set active storing the option before it resets
set_active_storeFirst(w, value) ==
    _reset([w EXCEPT !.configs.active = NotFalse(value)])

set_active(w, value) ==
    LET w1 == _reset(w)
    IN  [w1 EXCEPT !.configs.active = NotFalse(value)]

set_pointerEnabled(w, value) ==
    LET w1 == _reset(w)
    IN  [w1 EXCEPT !.configs.pointerEnabled = ToBoolean(value)]

set_pivotElement(w, element) == setPivotElement(w, element)

\* set pivoting ending the pivot when it is switched off
set_pivoting_endsPivot(w, value) ==
    LET w1 == [w EXCEPT !.configs.pivoting = ToBoolean(value)]
    IN  IF w1.configs.pivoting THEN w1 ELSE endPivot(w1)

set_pivoting(w, value) == [w EXCEPT !.configs.pivoting = ToBoolean(value)]

set_pivotPos(w, worldPos) == setPivotPos(w, worldPos)

set_dollyToPointer(w, value) ==
    LET w1 == [w EXCEPT !.configs.dollyToPointer = ToBoolean(value)]
    IN  IF w1.configs.dollyToPointer
        THEN [w1 EXCEPT !.configs.dollyToPivot = FALSE]
        ELSE w1

\* set dollyToPivot without the clearing of dollyToPointer
set_dollyToPivot_noClear(w, value) ==
    [w EXCEPT !.configs.dollyToPivot = ToBoolean(value)]

set_dollyToPivot(w, value) ==
    LET w1 == [w EXCEPT !.configs.dollyToPivot = ToBoolean(value)]
    IN  IF w1.configs.dollyToPivot
        THEN [w1 EXCEPT !.configs.dollyToPointer = FALSE]
        ELSE w1

\* set planView resetting like set active does
set_planView_resets(w, value) ==
    LET w1 == _reset(w)
    IN  [w1 EXCEPT !.configs.planView = ToBoolean(value)]

set_planView(w, value) == [w EXCEPT !.configs.planView = ToBoolean(value)]

\* set firstPerson hiding the indicator but not ending the pivot
set_firstPerson_noEndPivot(w, value) ==
    LET w1 == [w EXCEPT !.configs.firstPerson = ToBoolean(value)]
    IN  IF w1.configs.firstPerson
        THEN hidePivot(w1)
        ELSE w1

set_firstPerson(w, value) ==
    LET w1 == [w EXCEPT !.configs.firstPerson = ToBoolean(value)]
    IN  IF w1.configs.firstPerson
        THEN endPivot(hidePivot(w1))
        ELSE w1

set_constrainVertical(w, value) ==
    [w EXCEPT !.configs.constrainVertical = ToBoolean(value)]

set_doublePickFlyTo(w, value) ==
    [w EXCEPT !.configs.doublePickFlyTo = NotFalse(value)]

set_panRightClick(w, value) ==
    [w EXCEPT !.configs.panRightClick = NotFalse(value)]

\* set rotationInertia capping the factor below 1.0
set_rotationInertia_capped(w, value) ==
    [w EXCEPT !.configs.rotationInertia =
         IF value.undef THEN 50 ELSE IF value.n >= 100 THEN 99 ELSE value.n]

set_rotationInertia(w, value) ==
    [w EXCEPT !.configs.rotationInertia = IF value.undef THEN 50 ELSE value.n]

set_dollyRate(w, dollyRate) ==
    [w EXCEPT !.configs.dollyRate = IF NumTruthy(dollyRate) THEN dollyRate.n ELSE 1000]

\* set dollyInertia defaulting with || as set dollyRate does
set_dollyInertia_orDefault(w, value) ==
    [w EXCEPT !.configs.dollyInertia = IF NumTruthy(value) THEN value.n ELSE 50]

set_dollyInertia(w, value) ==
    [w EXCEPT !.configs.dollyInertia = IF value.undef THEN 50 ELSE value.n]

\* set keyboardLayout reporting an unsupported value but storing it
set_keyboardLayout_noFallback(w, value) ==
    LET v1 == IF ToBoolean(value) THEN value ELSE "qwerty"
    IN  IF v1 # "qwerty" /\ v1 # "azerty"
        THEN [error(w) EXCEPT !.configs.keyboardLayout = v1]
        ELSE [w EXCEPT !.configs.keyboardLayout = v1]

set_keyboardLayout(w, value) ==
    LET v1 == IF ToBoolean(value) THEN value ELSE "qwerty"
    IN  IF v1 # "qwerty" /\ v1 # "azerty"
        THEN [error(w) EXCEPT !.configs.keyboardLayout = "qwerty"]
        ELSE [w EXCEPT !.configs.keyboardLayout = v1]

RECURSIVE destroyLoop(_, _)
destroyLoop(w, i) ==
    IF i > Len(_handlers) THEN w
    ELSE destroyLoop(IF hasDestroy(_handlers[i]) THEN handlerDestroy(w, _handlers[i]) ELSE w,
                     i + 1)

_destroyHandlers(w) == destroyLoop(Log(w, "_destroyHandlers", ""), 1)

\* destroy tearing the camera updater down before the handlers
destroy_updaterFirst(w) ==
    LET w1 == Log(w, "cameraUpdater.destroy", "")
        w2 == _destroyHandlers(w1)
        w3 == Log(w2, "super.destroy", "")
    IN  [w3 EXCEPT !.destroyed = TRUE]

\* destroy resetting before it tears down
destroy_resets(w) ==
    LET w1 == _destroyHandlers(_reset(w))
        w2 == Log(w1, "cameraUpdater.destroy", "")
        w3 == Log(w2, "super.destroy", "")
    IN  [w3 EXCEPT !.destroyed = TRUE]

destroy(w) ==
    LET w1 == _destroyHandlers(w)
        w2 == Log(w1, "cameraUpdater.destroy", "")
        w3 == Log(w2, "super.destroy", "")
    IN  [w3 EXCEPT !.destroyed = TRUE]

\* The constructor's trailing assignments, in source order.
constructor(cfg) ==
    LET a1 == set_planView(World0, cfg.planView)
        a2 == set_firstPerson(a1, cfg.firstPerson)
        a3 == set_constrainVertical(a2, cfg.constrainVertical)
        a4 == set_keyboardLayout(a3, cfg.keyboardLayout)
        a5 == set_doublePickFlyTo(a4, cfg.doublePickFlyTo)
        a6 == set_panRightClick(a5, cfg.panRightClick)
        a7 == set_active(a6, cfg.active)
        a8 == set_pivoting(a7, cfg.pivoting)
        a9 == set_dollyToPointer(a8, cfg.dollyToPointer)
        a10 == set_dollyToPivot(a9, cfg.dollyToPivot)
        a11 == set_rotationInertia(a10, cfg.rotationInertia)
        a12 == set_dollyInertia(a11, cfg.dollyInertia)
        a13 == set_pointerEnabled(a12, "true")
    IN  set_dollyRate(a13, cfg.dollyRate)

\* cfg = {}
EmptyCfg ==
    [planView |-> "undefined", firstPerson |-> "undefined",
     constrainVertical |-> "undefined", keyboardLayout |-> "undefined",
     doublePickFlyTo |-> "undefined", panRightClick |-> "undefined",
     active |-> "undefined", pivoting |-> "undefined",
     dollyToPointer |-> "undefined", dollyToPivot |-> "undefined",
     rotationInertia |-> JSUndefined, dollyInertia |-> JSUndefined,
     dollyRate |-> JSUndefined]

\* The configurations a CameraControl is constructed with here.
Cfgs ==
    {EmptyCfg,
     [EmptyCfg EXCEPT !.pivoting = "true"],
     [EmptyCfg EXCEPT !.dollyToPointer = "true", !.dollyToPivot = "true"],
     [EmptyCfg EXCEPT !.firstPerson = "true", !.keyboardLayout = "azerty"],
     [EmptyCfg EXCEPT !.rotationInertia = JSNum(0), !.dollyInertia = JSNum(100)]}

----------------------------------------------------------------------------
\* SpotLight: vectors, matrices and the scene's services

\* A vector argument: undefined, or the array v.
VecUndefined == [undef |-> TRUE, n |-> <<0, 0, 0>>]
JSVec(v) == [undef |-> FALSE, n |-> v]

VecArgs == {VecUndefined, JSVec(<<0, -1, 0>>), JSVec(<<1, 0, 0>>)}
ColorArgs == {VecUndefined, JSVec(<<100, 0, 0>>)}
IntensityArgs == {JSUndefined, JSNum(50)}
AttenuationArgs == {JSUndefined, JSNum(50)}
CastShadowArgs == {"undefined", "true", "false"}

\* math.addVec3(u, v, dest)
addVec3(u, v) == <<u[1] + v[1], u[2] + v[2], u[3] + v[3]>>

\* A 4x4 view matrix is kept as the eye, target and up vector it was built
\* from; null is no matrix.
NullMat4 == [null |-> TRUE, eye |-> <<0, 0, 0>>, look |-> <<0, 0, 0>>, up |-> <<0, 0, 0>>]

\* math.identityMat4(): the view from the origin down the negative z axis
identityMat4 ==
    [null |-> FALSE, eye |-> <<0, 0, 0>>, look |-> <<0, 0, -1>>, up |-> <<0, 1, 0>>]

\* math.lookAtMat4v(pos, target, up, dest) overwrites dest
lookAtMat4v(pos, target, up, dest) ==
    [dest EXCEPT !.eye = pos, !.look = target, !.up = up]

\* Component.glRedraw()
glRedraw(l) == [l EXCEPT !.redraws = @ + 1]

\* Component.fire("dirty", true)
fire(l) == [l EXCEPT !.dirtyEvents = @ + 1]

----------------------------------------------------------------------------
\* SpotLight's methods, as functions of the light l

set_pos(l, value) ==
    glRedraw([l EXCEPT !.state.pos = IF value.undef THEN <<1, 1, 1>> ELSE value.n,
                       !._shadowViewMatrixDirty = TRUE])

\* set dir forgetting to invalidate the cached matrix
set_dir_keepsCache(l, value) ==
    glRedraw([l EXCEPT !.state.dir = IF value.undef THEN <<1, 1, 1>> ELSE value.n])

set_dir(l, value) ==
    glRedraw([l EXCEPT !.state.dir = IF value.undef THEN <<1, 1, 1>> ELSE value.n,
                       !._shadowViewMatrixDirty = TRUE])

set_color(l, value) ==
    glRedraw([l EXCEPT !.state.color = IF value.undef THEN <<70, 70, 80>> ELSE value.n])

set_intensity(l, value) ==
    glRedraw([l EXCEPT !.state.intensity = IF value.undef THEN 100 ELSE value.n])

set_constantAttenuation(l, value) ==
    glRedraw([l EXCEPT !.state.attenuation[1] = IF NumTruthy(value) THEN value.n ELSE 0])

set_linearAttenuation(l, value) ==
    glRedraw([l EXCEPT !.state.attenuation[2] = IF NumTruthy(value) THEN value.n ELSE 0])

set_quadraticAttenuation(l, value) ==
    glRedraw([l EXCEPT !.state.attenuation[3] = IF NumTruthy(value) THEN value.n ELSE 0])

\* set castShadow without the early return on an unchanged value
set_castShadow_always(l, value) ==
    fire(glRedraw([l EXCEPT !.state.castShadow = ToBoolean(value),
                            !._shadowViewMatrixDirty = TRUE]))

set_castShadow(l, value) ==
    IF l.state.castShadow = ToBoolean(value)
    THEN l
    ELSE fire(glRedraw([l EXCEPT !.state.castShadow = ToBoolean(value),
                                 !._shadowViewMatrixDirty = TRUE]))

getShadowViewMatrix(l) ==
    IF l._shadowViewMatrixDirty
    THEN [l EXCEPT !._shadowViewMatrix =
                       lookAtMat4v(l.state.pos, addVec3(l.state.pos, l.state.dir),
                                   <<0, 1, 0>>,
                                   IF @.null THEN identityMat4 ELSE @),
                   !.lookAts = @ + 1,
                   !._shadowViewMatrixDirty = FALSE]
    ELSE l

getShadowProjMatrix(l) ==
    IF l._shadowProjMatrixDirty
    THEN [l EXCEPT !._shadowProjMatrix = TRUE, !._shadowProjMatrixDirty = FALSE]
    ELSE l

\* getShadowRenderBuf making a new buffer on every call
getShadowRenderBuf_always(l) ==
    [l EXCEPT !._shadowRenderBuf = l.buffersCreated + 1, !.buffersCreated = @ + 1]

getShadowRenderBuf(l) ==
    IF l._shadowRenderBuf = 0
    THEN [l EXCEPT !._shadowRenderBuf = l.buffersCreated + 1, !.buffersCreated = @ + 1]
    ELSE l

SpotLight_destroy(l) ==
    LET l1 == [l EXCEPT !.destroyed = TRUE]
        l2 == IF l1._shadowRenderBuf # 0
              THEN [l1 EXCEPT !.buffersDestroyed = @ + 1]
              ELSE l1
    IN  [l2 EXCEPT !.inScene = FALSE]

\* The fields init assigns before it goes through the setters.  A null render
\* buffer is 0, the n-th buffer made is n.
SpotLight0(cfg) ==
    [cfg |-> cfg,
     _shadowRenderBuf |-> 0,
     _shadowViewMatrix |-> NullMat4,
     _shadowProjMatrix |-> FALSE,
     _shadowViewMatrixDirty |-> TRUE,
     _shadowProjMatrixDirty |-> TRUE,
     state |-> [pos |-> <<1, 1, 1>>, dir |-> <<0, -1, 0>>, color |-> <<70, 70, 80>>,
                intensity |-> 100, attenuation |-> <<0, 0, 0>>, castShadow |-> FALSE],
     destroyed |-> FALSE,
     inScene |-> FALSE,
     redraws |-> 0,
     dirtyEvents |-> 0,
     lookAts |-> 0,
     buffersCreated |-> 0,
     buffersDestroyed |-> 0]

SpotLight_init(cfg) ==
    LET l1 == set_pos(SpotLight0(cfg), cfg.pos)
        l2 == set_color(l1, cfg.color)
        l3 == set_intensity(l2, cfg.intensity)
        l4 == set_constantAttenuation(l3, cfg.constantAttenuation)
        l5 == set_linearAttenuation(l4, cfg.linearAttenuation)
        l6 == set_quadraticAttenuation(l5, cfg.quadraticAttenuation)
        l7 == set_castShadow(l6, cfg.castShadow)
    IN  [l7 EXCEPT !.inScene = TRUE]

EmptyLightCfg ==
    [pos |-> VecUndefined, dir |-> VecUndefined, color |-> VecUndefined,
     intensity |-> JSUndefined, constantAttenuation |-> JSUndefined,
     linearAttenuation |-> JSUndefined, quadraticAttenuation |-> JSUndefined,
     castShadow |-> "undefined"]

LightCfgs ==
    {EmptyLightCfg,
     [EmptyLightCfg EXCEPT !.dir = JSVec(<<1, 0, 0>>)],
     [EmptyLightCfg EXCEPT !.pos = JSVec(<<1, 0, 0>>), !.castShadow = "true"]}

----------------------------------------------------------------------------
\* The state machine

\* The object as the next operation finds it: its call log starts empty.
World ==
    [configs |-> configs, states |-> states, updates |-> updates,
     pivot |-> pivot, destroyed |-> destroyed, calls |-> <<>>]

Store(w) ==
    /\ configs' = w.configs
    /\ states' = w.states
    /\ updates' = w.updates
    /\ pivot' = w.pivot
    /\ destroyed' = w.destroyed
    /\ calls' = w.calls
    /\ UNCHANGED light

\* The host makes no call on a destroyed CameraControl, and a run has MaxOps
\* operations.
Live == ~destroyed /\ nOps < MaxOps

\* A call of the method named name that is neither an input event nor a write
\* to active.
Step(name, w) ==
    /\ op' = name
    /\ Store(w)
    /\ nOps' = nOps + 1
    /\ toggle' = IF toggle = 1 THEN 1 ELSE 0

Init ==
    \E cfg \in Cfgs :
        LET w == constructor(cfg)
        IN  /\ configs = w.configs
            /\ states = w.states
            /\ updates = w.updates
            /\ pivot = w.pivot
            /\ destroyed = w.destroyed
            /\ calls = w.calls
            /\ op = "constructor"
            /\ toggle = 0
            /\ nOps = 0
            /\ light = SpotLight_init(EmptyLightCfg)

SetActive(value) ==
    /\ Live
    /\ op' = "set active"
    /\ Store(set_active(World, value))
    /\ nOps' = nOps + 1
    /\ toggle' = CASE ~NotFalse(value) /\ configs.active -> 1
                   [] ~NotFalse(value) /\ ~configs.active -> toggle
                   [] NotFalse(value) /\ toggle = 1 -> 2
                   [] OTHER -> 0

SetPointerEnabled(value) == Live /\ Step("set pointerEnabled", set_pointerEnabled(World, value))

SetPivotElement(element) == Live /\ Step("set pivotElement", set_pivotElement(World, element))

SetPivoting(value) == Live /\ Step("set pivoting", set_pivoting(World, value))

SetPivotPos(worldPos) == Live /\ Step("set pivotPos", set_pivotPos(World, worldPos))

SetDollyToPointer(value) == Live /\ Step("set dollyToPointer", set_dollyToPointer(World, value))

SetDollyToPivot(value) == Live /\ Step("set dollyToPivot", set_dollyToPivot(World, value))

SetPlanView(value) == Live /\ Step("set planView", set_planView(World, value))

SetFirstPerson(value) == Live /\ Step("set firstPerson", set_firstPerson(World, value))

SetConstrainVertical(value) ==
    Live /\ Step("set constrainVertical", set_constrainVertical(World, value))

SetDoublePickFlyTo(value) == Live /\ Step("set doublePickFlyTo", set_doublePickFlyTo(World, value))

SetPanRightClick(value) == Live /\ Step("set panRightClick", set_panRightClick(World, value))

SetRotationInertia(value) == Live /\ Step("set rotationInertia", set_rotationInertia(World, value))

SetDollyRate(value) == Live /\ Step("set dollyRate", set_dollyRate(World, value))

SetDollyInertia(value) == Live /\ Step("set dollyInertia", set_dollyInertia(World, value))

SetKeyboardLayout(value) == Live /\ Step("set keyboardLayout", set_keyboardLayout(World, value))

Destroy == Live /\ Step("destroy", destroy(World))

----------------------------------------------------------------------------
\* Device input and the render tick (handlers and CameraUpdater are not in the
\* file; modelled from spec.md 4.2, 4.4, 4.5 and 6)

\* A pending delta grows by d, up to MaxDelta.
Add(x, d) == IF x + d > MaxDelta THEN MaxDelta ELSE x + d

\* An input event leaves the options alone and ends a pending toggle.
Input(s, u, p) ==
    /\ op' = "input"
    /\ states' = s
    /\ updates' = u
    /\ pivot' = p
    /\ calls' = <<>>
    /\ nOps' = nOps + 1
    /\ toggle' = 0
    /\ UNCHANGED <<configs, destroyed, light>>

PointerLive == Live /\ configs.active /\ configs.pointerEnabled

\* MouseMiscHandler: mouseenter / mouseleave
MouseOver(over) ==
    /\ PointerLive
    /\ states.mouseover # over
    /\ Input([states EXCEPT !.mouseover = over], updates, pivot)

\* MousePanRotateDollyHandler: a button goes down
MouseDown ==
    /\ PointerLive
    /\ ~states.mouseDown
    /\ Input([states EXCEPT !.mouseDown = TRUE], updates, pivot)

\* MousePanRotateDollyHandler: the button is released; a pivot drag ends
MouseUp ==
    /\ PointerLive
    /\ states.mouseDown
    /\ Input([states EXCEPT !.mouseDown = FALSE], updates,
             [pivot EXCEPT !.state = IF @ = "Dragging" THEN "Shown" ELSE @])

\* MousePanRotateDollyHandler: a drag that rotates; about the pivot when one is shown
MouseRotate(dx, dy) ==
    /\ PointerLive
    /\ dx + dy > 0
    /\ states.mouseDown
    /\ ~configs.planView
    /\ Input(states,
             [updates EXCEPT !.rotateDeltaX = Add(@, dx), !.rotateDeltaY = Add(@, dy)],
             [pivot EXCEPT !.state = IF configs.pivoting /\ @ = "Shown"
                                     THEN "Dragging" ELSE @])

\* MousePanRotateDollyHandler: a drag that pans
MousePan(dx, dy) ==
    /\ PointerLive
    /\ dx + dy > 0
    /\ states.mouseDown
    /\ Input(states,
             [updates EXCEPT !.panDeltaX = Add(@, dx), !.panDeltaY = Add(@, dy)],
             pivot)

\* MousePanRotateDollyHandler: the wheel dollies
MouseWheel(d) ==
    /\ PointerLive
    /\ Input(states, [updates EXCEPT !.dollyDelta = Add(@, d)], pivot)

\* TouchPanRotateAndDollyHandler: a finger goes down
TouchStart(id) ==
    /\ PointerLive
    /\ Len(states.activeTouches) < MaxTouches
    /\ \A i \in 1..Len(states.activeTouches) : states.activeTouches[i] # id
    /\ Input([states EXCEPT !.activeTouches = Append(@, id)], updates, pivot)

\* TouchPanRotateAndDollyHandler: every finger is lifted
TouchEnd ==
    /\ PointerLive
    /\ states.activeTouches # <<>>
    /\ Input([states EXCEPT !.activeTouches = <<>>], updates, pivot)

\* TouchPanRotateAndDollyHandler: a touch drag pans in depth and dollies
TouchMove(d) ==
    /\ PointerLive
    /\ states.activeTouches # <<>>
    /\ Input(states,
             [updates EXCEPT !.panDeltaZ = Add(@, d), !.dollyDelta = Add(@, d)],
             pivot)

\* KeyboardPanRotateDollyHandler: a navigation key is held
KeyDown(key) ==
    /\ Live
    /\ configs.active
    /\ key = "rotate" => ~configs.planView
    /\ Input(states,
             CASE key = "rotate" -> [updates EXCEPT !.rotateDeltaY = Add(@, 1)]
               [] key = "panZ" -> [updates EXCEPT !.panDeltaZ = Add(@, 1)]
               [] OTHER -> [updates EXCEPT !.dollyDelta = Add(@, 1)],
             pivot)

\* MousePickHandler / TouchPickHandler: a click or tap; one that hits an entity
\* while pivoting and not in first-person mode shows the pivot there.
Pick(hit) ==
    /\ PointerLive
    /\ Input([states EXCEPT !.lastTapTime = 0], updates,
             IF hit /\ configs.pivoting /\ ~configs.firstPerson
             THEN [pivot EXCEPT !.state = IF @ = "Inactive" THEN "Shown" ELSE @,
                                !.indicator = pivot.element,
                                !.pos = "picked"]
             ELSE pivot)

\* CameraUpdater, once per render tick: the pan deltas are applied and dropped,
\* the rotation and dolly deltas decay by their inertia factor.
Tick ==
    /\ Live
    /\ updates' = [updates EXCEPT
                     !.panDeltaX = 0, !.panDeltaY = 0, !.panDeltaZ = 0,
                     !.rotateDeltaX = (@ * configs.rotationInertia) \div 100,
                     !.rotateDeltaY = (@ * configs.rotationInertia) \div 100,
                     !.dollyDelta = (@ * configs.dollyInertia) \div 100]
    /\ op' = "tick"
    /\ calls' = <<>>
    /\ nOps' = nOps + 1
    /\ UNCHANGED <<configs, states, pivot, destroyed, toggle, light>>

Next ==
    \/ \E v \in BoolArgs : SetActive(v)
    \/ \E v \in BoolArgs : SetPointerEnabled(v)
    \/ \E e \in BOOLEAN : SetPivotElement(e)
    \/ \E v \in BoolArgs : SetPivoting(v)
    \/ \E p \in PivotPositions : SetPivotPos(p)
    \/ \E v \in BoolArgs : SetDollyToPointer(v)
    \/ \E v \in BoolArgs : SetDollyToPivot(v)
    \/ \E v \in BoolArgs : SetPlanView(v)
    \/ \E v \in BoolArgs : SetFirstPerson(v)
    \/ \E v \in BoolArgs : SetConstrainVertical(v)
    \/ \E v \in BoolArgs : SetDoublePickFlyTo(v)
    \/ \E v \in BoolArgs : SetPanRightClick(v)
    \/ \E v \in InertiaArgs : SetRotationInertia(v)
    \/ \E v \in RateArgs : SetDollyRate(v)
    \/ \E v \in InertiaArgs : SetDollyInertia(v)
    \/ \E v \in LayoutArgs : SetKeyboardLayout(v)
    \/ Destroy
    \/ \E over \in BOOLEAN : MouseOver(over)
    \/ MouseDown
    \/ MouseUp
    \/ \E dx, dy \in 0..1 : MouseRotate(dx, dy)
    \/ \E dx, dy \in 0..1 : MousePan(dx, dy)
    \/ \E d \in 1..MaxDelta : MouseWheel(d)
    \/ \E id \in 1..MaxTouches : TouchStart(id)
    \/ TouchEnd
    \/ \E d \in 1..MaxDelta : TouchMove(d)
    \/ \E key \in {"rotate", "panZ", "dolly"} : KeyDown(key)
    \/ \E hit \in BOOLEAN : Pick(hit)
    \/ Tick

Spec == Init /\ [][Next]_vars

----------------------------------------------------------------------------
\* The SpotLight's state machine.  The CameraControl stays as constructed.

camera == <<configs, states, updates, pivot, destroyed, calls, toggle>>

\* The host makes no call on a destroyed SpotLight, and a run has MaxLightOps
\* operations.
LightLive == ~light.destroyed /\ nOps < MaxLightOps

LightStep(name, l) ==
    /\ op' = name
    /\ light' = l
    /\ nOps' = nOps + 1
    /\ UNCHANGED camera

SpotInit ==
    /\ \E cfg \in LightCfgs : light = SpotLight_init(cfg)
    /\ LET w == constructor(EmptyCfg)
       IN  /\ configs = w.configs
           /\ states = w.states
           /\ updates = w.updates
           /\ pivot = w.pivot
           /\ destroyed = w.destroyed
           /\ calls = w.calls
    /\ op = "init"
    /\ toggle = 0
    /\ nOps = 0

SetPos(value) == LightLive /\ LightStep("set pos", set_pos(light, value))

SetDir(value) == LightLive /\ LightStep("set dir", set_dir(light, value))

SetColor(value) == LightLive /\ LightStep("set color", set_color(light, value))

SetIntensity(value) == LightLive /\ LightStep("set intensity", set_intensity(light, value))

SetConstantAttenuation(value) ==
    LightLive /\ LightStep("set constantAttenuation", set_constantAttenuation(light, value))

SetLinearAttenuation(value) ==
    LightLive /\ LightStep("set linearAttenuation", set_linearAttenuation(light, value))

SetQuadraticAttenuation(value) ==
    LightLive /\ LightStep("set quadraticAttenuation", set_quadraticAttenuation(light, value))

SetCastShadow(value) == LightLive /\ LightStep("set castShadow", set_castShadow(light, value))

GetShadowViewMatrix == LightLive /\ LightStep("getShadowViewMatrix", getShadowViewMatrix(light))

GetShadowProjMatrix == LightLive /\ LightStep("getShadowProjMatrix", getShadowProjMatrix(light))

GetShadowRenderBuf == LightLive /\ LightStep("getShadowRenderBuf", getShadowRenderBuf(light))

SpotLightDestroy == LightLive /\ LightStep("SpotLight.destroy", SpotLight_destroy(light))

SpotNext ==
    \/ \E v \in VecArgs : SetPos(v)
    \/ \E v \in VecArgs : SetDir(v)
    \/ \E v \in ColorArgs : SetColor(v)
    \/ \E v \in IntensityArgs : SetIntensity(v)
    \/ \E v \in AttenuationArgs : SetConstantAttenuation(v)
    \/ \E v \in AttenuationArgs : SetLinearAttenuation(v)
    \/ \E v \in AttenuationArgs : SetQuadraticAttenuation(v)
    \/ \E v \in CastShadowArgs : SetCastShadow(v)
    \/ GetShadowViewMatrix
    \/ GetShadowProjMatrix
    \/ GetShadowRenderBuf
    \/ SpotLightDestroy

SpotSpec == SpotInit /\ [][SpotNext]_vars

----------------------------------------------------------------------------
\* Claims

DeltaFields ==
    {"rotateDeltaX", "rotateDeltaY", "panDeltaX", "panDeltaY", "panDeltaZ", "dollyDelta"}

AllZero(u) == \A f \in DeltaFields : u[f] = 0

\* The step is one of the operation named name.  Every action sets op, so in
\* the formulas below Did(name) /\ A says no more than the action A does; it
\* comes first so that the steps of other operations are told apart by name.
Did(name) == op' = name

\* C1 (as claimed): after active has been toggled true -> false -> true with no
\* input event in between, every field of the pending-update accumulator is 0.
C1_ToggleZeroesDeltas == toggle = 2 => AllZero(updates)

\* C2: dollyToPointer and dollyToPivot are never both true, after construction
\* and after any sequence of writes to either.
C2_DollyModesExclusive == ~(configs.dollyToPointer /\ configs.dollyToPivot)

\* C2 witness: a write of true to dollyToPivot has left dollyToPointer false.
C2_Witness ==
    op = "set dollyToPivot" /\ configs.dollyToPivot /\ ~configs.dollyToPointer

\* The handlers one walk visits: the entries that follow the walk's entry i in
\* the call log, up to the next entry that is no handler call.
WalkCalls == {"_reset", "_destroyHandlers"}

HandlerCalls == {"handler.reset", "handler.destroy"}

RECURSIVE Visited(_, _)
Visited(log, i) ==
    IF i + 1 > Len(log) \/ log[i + 1].call \notin HandlerCalls THEN <<>>
    ELSE <<log[i + 1].h>> \o Visited(log, i + 1)

Walks(log) == {Visited(log, i) : i \in {k \in 1..Len(log) : log[k].call \in WalkCalls}}

PickHandlers == {"MousePickHandler", "TouchPickHandler"}

PanRotateDollyHandlers ==
    {"MousePanRotateDollyHandler", "TouchPanRotateAndDollyHandler",
     "KeyboardPanRotateDollyHandler"}

\* C3 (as claimed): every walk of the handler list visits every pick handler
\* before every pan/rotate/dolly handler.
C3_PickBeforePanRotateDolly ==
    \A v \in Walks(calls) : \A i, j \in 1..Len(v) :
        v[i] \in PickHandlers /\ v[j] \in PanRotateDollyHandlers => i < j

\* C3 (amended): every walk of the handler list (reset, destroy) visits the
\* seven handlers once each in the registration order MouseMisc,
\* TouchPanRotateAndDolly, MousePanRotateDolly, KeyboardAxisView, MousePick,
\* TouchPick, KeyboardPanRotateDolly: the pick handlers come after the mouse
\* and touch pan/rotate/dolly handlers and before the keyboard one only.
C3_RegistrationOrder ==
    \A v \in Walks(calls) :
        v = <<"MouseMiscHandler", "TouchPanRotateAndDollyHandler",
              "MousePanRotateDollyHandler", "KeyboardAxisViewHandler",
              "MousePickHandler", "TouchPickHandler",
              "KeyboardPanRotateDollyHandler">>

\* C3 witness: an operation after construction has walked the whole list in a
\* reset.
C3_Witness ==
    /\ op = "set pointerEnabled"
    /\ \E k \in 1..Len(calls) :
           calls[k].call = "_reset" /\ Len(Visited(calls, k)) = Len(_handlers)

PivotOn == {"Shown", "Dragging"}

\* C4 (as claimed): a write of false to pivoting while the pivot is Shown or
\* Dragging moves the pivot state to Inactive.
C4_PivotingOffEndsPivot ==
    [][\A v \in BoolArgs :
          Did("set pivoting") /\ SetPivoting(v) /\ ~ToBoolean(v)
                  /\ pivot.state \in PivotOn
              => pivot'.state = "Inactive"]_vars

\* C4 (amended): a write to pivoting stores the coerced value and leaves the
\* pivot state, indicator and position as they were; in particular a write of
\* false while the pivot is Shown or Dragging leaves it Shown or Dragging.
C4_PivotingOnlyStores ==
    [][\A v \in BoolArgs :
          Did("set pivoting") /\ SetPivoting(v)
              => configs'.pivoting = ToBoolean(v) /\ pivot' = pivot]_vars

\* C4 witness: pivoting has been written false with the pivot still shown.
C4_Witness == op = "set pivoting" /\ ~configs.pivoting /\ pivot.state \in PivotOn

\* C5: whenever firstPerson is true the pivot state is Inactive and the pivot
\* indicator is hidden.
C5_FirstPersonForcesInactive ==
    configs.firstPerson => pivot.state = "Inactive" /\ ~pivot.indicator

\* C5 witness: firstPerson was written true over a pivot that a pick had shown.
C5_Witness ==
    /\ op = "set firstPerson"
    /\ configs.firstPerson
    /\ pivot.pos = "picked"
    /\ Len(calls) = 2
    /\ calls[1].call = "hidePivot"
    /\ calls[2].call = "endPivot"

ResetCalls == {"_reset", "handler.reset"}

\* C6 (as claimed): destroy() has invoked reset(): once destroyed, every
\* handler's reset has run and every pending delta is zero.
C6_DestroyResets ==
    destroyed =>
        /\ AllZero(updates)
        /\ \E k \in 1..Len(calls) :
               calls[k].call = "_reset" /\ Len(Visited(calls, k)) = Len(_handlers)

\* C6 (amended): destroy() does not invoke reset(): it calls no handler's
\* reset and leaves every pending delta as it was.
C6_DestroyKeepsDeltas ==
    [][Did("destroy") /\ Destroy =>
          /\ updates' = updates
          /\ \A k \in 1..Len(calls') : calls'[k].call \notin ResetCalls]_vars

\* C6 witness: destroyed with a pending rotation delta still in the accumulator.
C6_Witness == op = "destroy" /\ destroyed /\ updates.rotateDeltaY > 0

\* No config option but those in keep differs after the step, and the
\* accumulator and the interaction state are as before.
Frame(keep) ==
    /\ \A f \in (DOMAIN configs) \ keep : configs'[f] = configs[f]
    /\ updates' = updates
    /\ states' = states

OwnOptionOnly(o) == Frame({o}) /\ pivot' = pivot

\* The setters that only store
PlainSetterSteps ==
    /\ Did("set pivoting") => OwnOptionOnly("pivoting")
    /\ Did("set planView") => OwnOptionOnly("planView")
    /\ Did("set constrainVertical") => OwnOptionOnly("constrainVertical")
    /\ Did("set doublePickFlyTo") => OwnOptionOnly("doublePickFlyTo")
    /\ Did("set panRightClick") => OwnOptionOnly("panRightClick")
    /\ Did("set rotationInertia") => OwnOptionOnly("rotationInertia")
    /\ Did("set dollyRate") => OwnOptionOnly("dollyRate")
    /\ Did("set dollyInertia") => OwnOptionOnly("dollyInertia")
    /\ Did("set keyboardLayout") => OwnOptionOnly("keyboardLayout")

\* C7 (as claimed): every configuration setter other than active and
\* pointerEnabled changes only its own stored option.
C7_SettersOnlyStore ==
    [][/\ PlainSetterSteps
       /\ Did("set dollyToPointer") => OwnOptionOnly("dollyToPointer")
       /\ Did("set dollyToPivot") => OwnOptionOnly("dollyToPivot")
       /\ Did("set firstPerson") => OwnOptionOnly("firstPerson")]_vars

\* C7 (amended): every configuration setter other than active and
\* pointerEnabled leaves the accumulator and the interaction state unchanged
\* and changes no option but its own and no pivot state, except that a write
\* making dollyToPointer (dollyToPivot) true also makes dollyToPivot
\* (dollyToPointer) false, and a write making firstPerson true also hides the
\* pivot indicator and makes the pivot state Inactive.
C7_SettersFrame ==
    [][/\ PlainSetterSteps
       /\ Did("set dollyToPointer") =>
              /\ Frame({"dollyToPointer", "dollyToPivot"})
              /\ pivot' = pivot
              /\ configs'.dollyToPivot # configs.dollyToPivot =>
                     configs'.dollyToPointer /\ ~configs'.dollyToPivot
       /\ Did("set dollyToPivot") =>
              /\ Frame({"dollyToPointer", "dollyToPivot"})
              /\ pivot' = pivot
              /\ configs'.dollyToPointer # configs.dollyToPointer =>
                     configs'.dollyToPivot /\ ~configs'.dollyToPointer
       /\ Did("set firstPerson") =>
              /\ Frame({"firstPerson"})
              /\ pivot' = IF configs'.firstPerson
                          THEN [pivot EXCEPT !.state = "Inactive", !.indicator = FALSE]
                          ELSE pivot]_vars

\* C7 witness: planView was written true over a pending rotation delta, which
\* is still pending.
C7_Witness == op = "set planView" /\ configs.planView /\ updates.rotateDeltaY > 0

\* What a write to option o has done when it stores b: _reset was entered
\* first and called the reset of every handler that has one, in order; each of
\* them saw the old active and pointerEnabled and the deltas not yet zeroed;
\* the deltas _reset assigns are zero and o holds b afterwards.
ResetThenStore(o, b) ==
    /\ calls' # <<>>
    /\ calls'[1].call = "_reset"
    /\ Visited(calls', 1) = SelectSeq(_handlers, hasReset)
    /\ Len(calls') = 1 + Len(SelectSeq(_handlers, hasReset))
    /\ \A k \in 1..Len(calls') :
           /\ k > 1 => calls'[k].call = "handler.reset"
           /\ calls'[k].active = configs.active
           /\ calls'[k].pointerEnabled = configs.pointerEnabled
           /\ calls'[k].upd = updates
    /\ \A f \in {"panDeltaX", "panDeltaY", "rotateDeltaX", "rotateDeltaY"} :
           updates'[f] = 0
    /\ configs'[o] = b

\* C8: every write to active or pointerEnabled, of any value, runs reset()
\* first (the handlers' resets in order, then the zeroing of the deltas) and
\* stores the new value afterwards; no handler reset observes the new value.
C8_ResetBeforeStore ==
    [][\A v \in BoolArgs :
          /\ Did("set active") /\ SetActive(v)
                 => ResetThenStore("active", NotFalse(v))
          /\ Did("set pointerEnabled") /\ SetPointerEnabled(v)
                 => ResetThenStore("pointerEnabled", ToBoolean(v))]_vars

\* C8 witness: active is now false and the handler resets of the write that
\* made it so saw it true.
C8_Witness ==
    /\ op = "set active"
    /\ ~configs.active
    /\ Len(calls) > 1
    /\ calls[2].call = "handler.reset"
    /\ calls[2].active

Logged(log, name) == \E k \in 1..Len(log) : log[k].call = name

\* C9: after any write to keyboardLayout the stored value is "qwerty" or
\* "azerty"; any other non-empty value stores "qwerty" and logs a warning,
\* "qwerty" or "azerty" is stored as written without one.
C9_KeyboardLayout ==
    [][\A v \in LayoutArgs :
          Did("set keyboardLayout") /\ SetKeyboardLayout(v) =>
              /\ configs'.keyboardLayout \in {"qwerty", "azerty"}
              /\ v \in {"qwerty", "azerty"} =>
                     configs'.keyboardLayout = v /\ ~Logged(calls', "error")
              /\ v \notin {"qwerty", "azerty", "", "undefined"} =>
                     configs'.keyboardLayout = "qwerty" /\ Logged(calls', "error")]_vars

\* C9 witness: a write of an unsupported layout has stored "qwerty" and logged
\* the warning.
C9_Witness ==
    /\ op = "set keyboardLayout"
    /\ configs.keyboardLayout = "qwerty"
    /\ Logged(calls, "error")

\* C10 (as claimed): each stored inertia factor f satisfies 0 <= f < 1
\* (0 <= f < 100 in hundredths).
C10_InertiaInRange ==
    /\ 0 <= configs.rotationInertia /\ configs.rotationInertia < 100
    /\ 0 <= configs.dollyInertia /\ configs.dollyInertia < 100

\* C10 (amended): a write to rotationInertia or dollyInertia stores the number
\* written, whatever it is (1.0 and numbers above it included), and 0.5 when
\* undefined is written.
C10_InertiaStoredAsGiven ==
    [][\A v \in InertiaArgs :
          /\ Did("set rotationInertia") /\ SetRotationInertia(v) =>
                 configs'.rotationInertia = IF v = JSUndefined THEN 50 ELSE v.n
          /\ Did("set dollyInertia") /\ SetDollyInertia(v) =>
                 configs'.dollyInertia = IF v = JSUndefined THEN 50 ELSE v.n]_vars

\* C10 witness: an inertia factor above 1.0 is stored.
C10_Witness == op = "set rotationInertia" /\ configs.rotationInertia > 100

CallNames(log) == [k \in 1..Len(log) |-> log[k].call]

\* C11: destroy() tears down in a fixed order: the destroy of every registered
\* handler that has one, once each in registration order, then the camera
\* updater's destroy, then the base component's destroy.
C11_DestroyOrder ==
    op = "destroy" =>
        /\ calls # <<>>
        /\ calls[1].call = "_destroyHandlers"
        /\ Visited(calls, 1) = SelectSeq(_handlers, hasDestroy)
        /\ CallNames(calls) =
               <<"_destroyHandlers">>
               \o [k \in 1..Len(SelectSeq(_handlers, hasDestroy)) |-> "handler.destroy"]
               \o <<"cameraUpdater.destroy", "super.destroy">>
        /\ destroyed

\* C11 witness: destroy() has run.
C11_Witness ==
    op = "destroy" /\ Len(calls) = Len(_handlers) + 3
        /\ calls[Len(calls)].call = "super.destroy"

\* C12: reset() is safe to call redundantly: from any state, a second reset()
\* leaves the configuration, the accumulator and the interaction state as the
\* first one left them, and reset() changes no configuration option.
C12_ResetIdempotent ==
    LET w1 == _reset(World)
        w2 == _reset(w1)
    IN  /\ w1.configs = configs
        /\ w2.configs = w1.configs
        /\ w2.updates = w1.updates
        /\ w2.states = w1.states

\* C12 witness: a drag and a pending rotation are in progress, so that the
\* first reset() changes the accumulator and the interaction state.
C12_Witness ==
    /\ states.mouseDown
    /\ updates.rotateDeltaY > 0
    /\ _reset(World).updates # updates
    /\ _reset(World).states # states

\* C13 (as claimed): rotationInertia, dollyInertia and dollyRate substitute
\* their default (0.5, 0.5, 10) exactly when undefined is written; every
\* defined number, 0 included, is stored as given.
C13_DefaultOnlyWhenUndefined ==
    [][/\ \A v \in InertiaArgs :
             /\ Did("set rotationInertia") /\ SetRotationInertia(v) =>
                    configs'.rotationInertia = IF v = JSUndefined THEN 50 ELSE v.n
             /\ Did("set dollyInertia") /\ SetDollyInertia(v) =>
                    configs'.dollyInertia = IF v = JSUndefined THEN 50 ELSE v.n
       /\ \A v \in RateArgs :
             Did("set dollyRate") /\ SetDollyRate(v) =>
                 configs'.dollyRate = IF v = JSUndefined THEN 1000 ELSE v.n]_vars

\* C13 (amended): rotationInertia and dollyInertia substitute 0.5 exactly when
\* undefined is written and store every defined number, 0 included, as given;
\* dollyRate substitutes 10 when undefined or 0 is written and stores every
\* other number as given; a CameraControl constructed without these options
\* reads back 0.5, 0.5 and 10.
C13_Defaults ==
    [][/\ \A v \in InertiaArgs :
             /\ Did("set rotationInertia") /\ SetRotationInertia(v) =>
                    configs'.rotationInertia = IF v = JSUndefined THEN 50 ELSE v.n
             /\ Did("set dollyInertia") /\ SetDollyInertia(v) =>
                    configs'.dollyInertia = IF v = JSUndefined THEN 50 ELSE v.n
       /\ \A v \in RateArgs :
             Did("set dollyRate") /\ SetDollyRate(v) =>
                 configs'.dollyRate =
                     IF v = JSUndefined \/ v = JSNum(0) THEN 1000 ELSE v.n
       /\ op = "constructor" =>
              LET c == constructor(EmptyCfg).configs
              IN  c.rotationInertia = 50 /\ c.dollyInertia = 50 /\ c.dollyRate = 1000]_vars

\* C13 witness: 0 was written to dollyInertia and is stored.
C13_Witness == op = "set dollyInertia" /\ configs.dollyInertia = 0

\* C14 (as claimed): a CameraControl constructed without a doublePickFlyTo
\* option reads doublePickFlyTo === false.  (No configuration in Cfgs gives
\* the option.)
C14_DoublePickFlyToDefaultsFalse ==
    op = "constructor" => ~configs.doublePickFlyTo

----------------------------------------------------------------------------
\* The SpotLight's claims, under SpotSpec

\* C15 (as claimed): a SpotLight constructed with cfg.dir = d has dir d, and
\* one constructed without cfg.dir has the documented default [0, -1, 0].
C15_DirFromCfg ==
    op = "init" =>
        light.state.dir = IF light.cfg.dir.undef THEN <<0, -1, 0>> ELSE light.cfg.dir.n

ViewMatrixFor(l) ==
    lookAtMat4v(l.state.pos, addVec3(l.state.pos, l.state.dir), <<0, 1, 0>>, identityMat4)

InvalidatingSetters == {"set pos", "set dir", "set castShadow"}

\* C16: whenever _shadowViewMatrixDirty is false the cached shadow view matrix
\* is the one computed from the current pos and dir; getShadowViewMatrix
\* recomputes exactly when the flag is set and clears it, and only the pos,
\* dir and castShadow setters set the flag, so a call recomputes only when
\* such a setter ran since the last call.
C16_ShadowViewMatrixCoherent ==
    [][/\ ~light'._shadowViewMatrixDirty =>
              light'._shadowViewMatrix = ViewMatrixFor(light')
       /\ Did("getShadowViewMatrix") =>
              /\ ~light'._shadowViewMatrixDirty
              /\ light'.lookAts =
                     light.lookAts + IF light._shadowViewMatrixDirty THEN 1 ELSE 0
       /\ light'._shadowViewMatrixDirty /\ ~light._shadowViewMatrixDirty =>
              op' \in InvalidatingSetters
       /\ ~Did("getShadowViewMatrix") => light'.lookAts = light.lookAts]_vars

\* C16 witness: the matrix was computed, a setter ran, and the next call
\* computed it again.
C16_Witness ==
    /\ op = "getShadowViewMatrix"
    /\ light.lookAts = 2
    /\ ~light._shadowViewMatrixDirty
    /\ light._shadowViewMatrix = ViewMatrixFor(light)

\* C17: a write to castShadow whose coerced value equals the current flag
\* changes nothing, requests no redraw and fires no "dirty" event; a write
\* that changes the flag stores it, marks the shadow view matrix dirty,
\* requests a redraw and fires "dirty" once; so every step fires as many
\* "dirty" events as it changes the flag.
C17_CastShadowEvents ==
    [][/\ \A v \in CastShadowArgs :
             Did("set castShadow") /\ SetCastShadow(v) =>
                 IF ToBoolean(v) = light.state.castShadow
                 THEN light' = light
                 ELSE light' = [light EXCEPT !.state.castShadow = ToBoolean(v),
                                             !._shadowViewMatrixDirty = TRUE,
                                             !.redraws = @ + 1,
                                             !.dirtyEvents = @ + 1]
       /\ light'.dirtyEvents =
              light.dirtyEvents
                  + IF light'.state.castShadow # light.state.castShadow THEN 1 ELSE 0]_vars

\* C17 witness: the flag has been switched on and off again, with two events.
C17_Witness ==
    /\ op = "set castShadow"
    /\ ~light.state.castShadow
    /\ light.dirtyEvents = 2

\* C18: at most one shadow render buffer is ever made, by the first
\* getShadowRenderBuf, and every call returns it; destroy() destroys the
\* buffer exactly when one was made.
C18_OneRenderBuffer ==
    [][/\ light'.buffersCreated <= 1
       /\ light'._shadowRenderBuf = light'.buffersCreated
       /\ light'.buffersDestroyed = IF light'.destroyed THEN light'.buffersCreated ELSE 0
       /\ light'.buffersCreated # light.buffersCreated =>
              Did("getShadowRenderBuf") /\ light._shadowRenderBuf = 0
       /\ Did("getShadowRenderBuf") => light'._shadowRenderBuf = 1]_vars

\* C18 witness: a buffer was made and destroy() destroyed it.
C18_Witness ==
    /\ op = "SpotLight.destroy"
    /\ light.buffersCreated = 1
    /\ light.buffersDestroyed = 1

====
